---- MODULE Spec2Model ----
(***************************************************************************)
(* A model of the date directives of the `time` crate's formatter and      *)
(* parser (src/format/date.rs), of its language tables                     *)
(* (src/format/language.rs) and of the UTC offset (src/utc_offset.rs).     *)
(*                                                                         *)
(* Text is a TLA+ string; a cursor `&mut &str` is the string that is left. *)
(* An Option<T> is a set: {} is None and {v} is Some(v).                   *)
(***************************************************************************)
EXTENDS Integers, Sequences, FiniteSets, TLC

VARIABLES
    phase,      \* "idle", "formatted" (a text was written), "parsing" (a
                \* text the caller gave) or "reparsing" (the text written)
    language,   \* the Language of the call in progress
    items,      \* the ParsedItems accumulator of the parse in progress
    s,          \* the input the parse has not consumed yet
    result,     \* "None" before any directive, then "Ok" or the ParseError
    call,       \* the last directive call: its name, padding, and the
                \* accumulator and input it was given
    out,        \* the text the formatter wrote
    fmtcall,    \* the last format call: its name, padding and value
    input,      \* the text the parse in progress was given
    template,   \* the template run so far: <<directive, padding>> and
                \* <<"literal", character>> in the order they ran
    made        \* the last UtcOffset that was made: the function that made
                \* it, its argument, how it ended and the offset

vars ==
    <<phase, language, items, s, result, call, out, fmtcall, input, template,
      made>>

(***************************************************************************)
(* Bounds of the model.                                                    *)
(***************************************************************************)
\* half width of the windows of years and magnitudes that are enumerated
YearWindow == 1
\* the number of directives of one template
MaxDirectives == 2

(***************************************************************************)
(* Text helpers.                                                           *)
(***************************************************************************)
Take(str, n) == SubSeq(str, 1, n)
Drop(str, n) == SubSeq(str, n + 1, Len(str))
CharAt(str, i) == SubSeq(str, i, i)
Min(a, b) == IF a <= b THEN a ELSE b
Abs(n) == IF n < 0 THEN -n ELSE n

DigitChars == {"0", "1", "2", "3", "4", "5", "6", "7", "8", "9"}
is_ascii_digit(c) == c \in DigitChars
DigitVal(c) == CHOOSE i \in 0..9 : CharAt("0123456789", i + 1) = c
DigitChar(i) == CharAt("0123456789", i + 1)

starts_with(str, prefix) ==
    /\ Len(prefix) <= Len(str)
    /\ Take(str, Len(prefix)) = prefix

\* str::chars().all(is_ascii_digit)
AllDigits(str) == \A i \in 1..Len(str) : is_ascii_digit(CharAt(str, i))

\* i32::to_string / Display of a natural number
RECURSIVE to_string(_)
to_string(n) ==
    IF n < 10 THEN DigitChar(n)
    ELSE to_string(n \div 10) \o DigitChar(n % 10)

\* str::parse of a string of ASCII digits
RECURSIVE FromDigits(_)
FromDigits(str) ==
    IF str = "" THEN 0
    ELSE FromDigits(Take(str, Len(str) - 1)) * 10 + DigitVal(CharAt(str, Len(str)))

\* n copies of the character c
RECURSIVE Repeat(_, _)
Repeat(c, n) == IF n <= 0 THEN "" ELSE c \o Repeat(c, n - 1)

\* chars().take(max).take_while(p).count(), for p = "is the character c"
RECURSIVE CountChar(_, _, _)
CountChar(str, c, max) ==
    IF max = 0 \/ str = "" \/ CharAt(str, 1) # c THEN 0
    ELSE 1 + CountChar(Drop(str, 1), c, max - 1)

\* chars().take(max).take_while(is_ascii_digit).count()
RECURSIVE CountDigits(_, _)
CountDigits(str, max) ==
    IF max = 0 \/ str = "" \/ ~is_ascii_digit(CharAt(str, 1)) THEN 0
    ELSE 1 + CountDigits(Drop(str, 1), max - 1)

(***************************************************************************)
(* Rust integer arithmetic.                                                *)
(***************************************************************************)
\* i32 `/`: the quotient truncated towards zero
div(a, b) == IF a >= 0 THEN a \div b ELSE -((-a) \div b)
\* i32::rem_euclid with a positive modulus
rem_euclid(a, b) == a % b

(***************************************************************************)
(* Option<T>.                                                              *)
(***************************************************************************)
None == {}
Some(v) == {v}
is_some(o) == o # {}
unwrap(o) == CHOOSE v \in o : TRUE
unwrap_or(o, d) == IF o = {} THEN d ELSE unwrap(o)

(***************************************************************************)
(* Padding, Sign, Weekday and Language.                                    *)
(***************************************************************************)
Padding == {"None", "Space", "Zero", "Default"}

\* Padding::default_to: the override of the template, or the directive's
\* default when the template gives none
default_to(padding, value) == IF padding = "Default" THEN value ELSE padding

\* Sign * i32
SignMul(sign, v) == IF sign = "Negative" THEN -v ELSE v

WEEKDAYS ==
    <<"Monday", "Tuesday", "Wednesday", "Thursday", "Friday", "Saturday", "Sunday">>

Weekday == {WEEKDAYS[i] : i \in 1..7}

IndexOf(seq, v) == CHOOSE i \in 1..Len(seq) : seq[i] = v

number_days_from_monday(weekday) == IndexOf(WEEKDAYS, weekday) - 1
number_days_from_sunday(weekday) == (IndexOf(WEEKDAYS, weekday) % 7)
iso_weekday_number(weekday) == IndexOf(WEEKDAYS, weekday)

\* <[T]>::rotate_left(k)
rotate_left(seq, k) ==
    [i \in 1..Len(seq) |-> seq[((i - 1 + k) % Len(seq)) + 1]]

Language == {"en", "es", "fr"}

month_names(lang) ==
    CASE lang = "en" ->
            <<"January", "February", "March", "April", "May", "June", "July",
              "August", "September", "October", "November", "December">>
      [] lang = "es" ->
            <<"enero", "febrero", "marzo", "abril", "mayo", "junio", "julio",
              "agosto", "septiembre", "octubre", "noviembre", "diciembre">>
      [] lang = "fr" ->
            <<"janvier", "février", "mars", "avril", "mai", "juin", "juillet",
              "août", "septembre", "octobre", "novembre", "décembre">>

short_month_names(lang) ==
    CASE lang = "en" ->
            <<"Jan", "Feb", "Mar", "Apr", "May", "June", "July", "Aug", "Sept",
              "Oct", "Nov", "Dec">>
      [] lang = "es" ->
            <<"enero", "feb", "marzo", "abr", "mayo", "jun", "jul", "agosto",
              "set", "oct", "nov", "dic">>
      [] lang = "fr" ->
            <<"janv", "févr", "mars", "avril", "mai", "juin", "juil", "août",
              "sept", "oct", "nov", "déc">>

week_days(lang) ==
    CASE lang = "en" ->
            <<"Monday", "Tuesday", "Wednesday", "Thursday", "Friday",
              "Saturday", "Sunday">>
      [] lang = "es" ->
            <<"lunes", "martes", "miércoles", "jueves", "viernes", "sábado",
              "domingo">>
      [] lang = "fr" ->
            <<"lundi", "mardi", "mercredi", "jeudi", "vendredi", "samedi",
              "dimanche">>

short_week_days(lang) ==
    CASE lang = "en" -> <<"Mon", "Tue", "Wed", "Thu", "Fri", "Sat", "Sun">>
      [] lang = "es" -> <<"Lu", "Ma", "Mi", "Ju", "Vi", "Sa", "Do">>
      [] lang = "fr" -> <<"lun", "mar", "mer", "jeu", "ven", "sam", "dim">>

\* Iterator::zip: pairs up to the shorter of the two
zip(xs, ys) == [i \in 1..Min(Len(xs), Len(ys)) |-> <<xs[i], ys[i]>>]

\* (from..).map(|d| d.to_string()), as many as are ever taken
Numbers(from, n) == [i \in 1..n |-> to_string(from + i - 1)]

(***************************************************************************)
(* The cursor primitives of the parser.  Each gives the value it found     *)
(* (an Option) and the input that is left.                                 *)
(***************************************************************************)
\* skip at most max_chars leading fill characters; gives how many
consume_padding(str, padding, max_chars) ==
    CASE padding = "Space" -> CountChar(str, " ", max_chars)
      [] padding = "Zero"  -> CountChar(str, "0", max_chars)
      [] OTHER             -> 0

\* the first candidate, in the order given, that is a prefix of the input
try_consume_first_match(str, opts) ==
    LET hits == {i \in 1..Len(opts) : starts_with(str, opts[i][1])}
    IN  IF hits = {} THEN [value |-> None, rest |-> str]
        ELSE LET i == CHOOSE j \in hits : \A k \in hits : j <= k
             IN  [value |-> Some(opts[i][2]),
                  rest  |-> Drop(str, Len(opts[i][1]))]

\* between min and max digits, as many as there are
try_consume_digits(str, min, max) ==
    LET len == CountDigits(str, max)
    IN  IF len < min THEN [value |-> None, rest |-> str]
        ELSE [value |-> Some(FromDigits(Take(str, len))),
              rest  |-> Drop(str, len)]

try_consume_digits_in_range(str, min, max, lo, hi) ==
    LET r == try_consume_digits(str, min, max)
    IN  [value |-> {v \in r.value : lo <= v /\ v <= hi}, rest |-> r.rest]

\* exactly num_digits characters, of which leading ones may be spaces when
\* the padding is Space; nonzero is whether the target type is NonZero*
try_consume_exact_digits(str, num_digits, padding, nonzero) ==
    LET pad_size == IF padding = "Space"
                    THEN consume_padding(str, padding, num_digits - 1)
                    ELSE 0
        after    == Drop(str, pad_size)
        n        == num_digits - pad_size
        digits   == Take(after, n)
    IN  IF n > Len(after) \/ ~AllDigits(digits)
        THEN [value |-> None, rest |-> after]
        ELSE [value |-> {v \in {FromDigits(digits)} : ~nonzero \/ v # 0},
              rest  |-> Drop(after, n)]

try_consume_exact_digits_in_range(str, num_digits, lo, hi, padding) ==
    LET r == try_consume_exact_digits(str, num_digits, padding, FALSE)
    IN  [value |-> {v \in r.value : lo <= v /\ v <= hi}, rest |-> r.rest]

\* NonZeroU8::new
NonZeroU8_new(v) == IF v = 0 THEN None ELSE Some(v)

(***************************************************************************)
(* ParsedItems: the accumulator.  Only the fields the date directives and  *)
(* the offset use are kept.                                                *)
(***************************************************************************)
ParsedItems_new ==
    [year            |-> None,
     week_based_year |-> None,
     month           |-> None,
     day             |-> None,
     ordinal_day     |-> None,
     iso_week        |-> None,
     sunday_week     |-> None,
     monday_week     |-> None,
     weekday         |-> None,
     offset          |-> None]

\* What a parse function hands back: its ParseResult, the accumulator and
\* the cursor as it leaves them.
Return(res, its, rest) == [result |-> res, items |-> its, s |-> rest]

(***************************************************************************)
(* The parse functions of src/format/date.rs.  A `?` that fails returns    *)
(* before the assignment to the field.                                     *)
(***************************************************************************)
parse_a(its, str, lang) ==
    LET r == try_consume_first_match(str, zip(short_week_days(lang), WEEKDAYS))
    IN  IF r.value = None THEN Return("InvalidDayOfWeek", its, r.rest)
        ELSE Return("Ok", [its EXCEPT !.weekday = Some(unwrap(r.value))], r.rest)

parse_A(its, str, lang) ==
    LET r == try_consume_first_match(str, zip(week_days(lang), WEEKDAYS))
    IN  IF r.value = None THEN Return("InvalidDayOfWeek", its, r.rest)
        ELSE Return("Ok", [its EXCEPT !.weekday = Some(unwrap(r.value))], r.rest)

\* parse_b pairing the names with 0.. and not with 1..
parse_b_FromZero(its, str, lang) ==
    LET r == try_consume_first_match(str,
                 zip(short_month_names(lang), [i \in 1..12 |-> i - 1]))
    IN  IF r.value = None THEN Return("InvalidMonth", its, r.rest)
        ELSE Return("Ok", [its EXCEPT !.month = NonZeroU8_new(unwrap(r.value))],
                    r.rest)

parse_b(its, str, lang) ==
    LET r == try_consume_first_match(str,
                 zip(short_month_names(lang), [i \in 1..12 |-> i]))
    IN  IF r.value = None THEN Return("InvalidMonth", its, r.rest)
        ELSE Return("Ok", [its EXCEPT !.month = NonZeroU8_new(unwrap(r.value))],
                    r.rest)

parse_B(its, str, lang) ==
    LET r == try_consume_first_match(str,
                 zip(month_names(lang), [i \in 1..12 |-> i]))
    IN  IF r.value = None THEN Return("InvalidMonth", its, r.rest)
        ELSE Return("Ok", [its EXCEPT !.month = NonZeroU8_new(unwrap(r.value))],
                    r.rest)

parse_C(its, str, padding) ==
    LET padding_length == consume_padding(str, default_to(padding, "Zero"), 1)
        r == try_consume_digits(Drop(str, padding_length),
                                2 - padding_length, 3 - padding_length)
    IN  IF r.value = None THEN Return("InvalidYear", its, r.rest)
        ELSE Return("Ok",
                    [its EXCEPT !.year =
                        Some(unwrap(r.value) * 100
                             + rem_euclid(unwrap_or(its.year, 0), 100))],
                    r.rest)

parse_d(its, str, padding) ==
    LET r == try_consume_exact_digits(str, 2, default_to(padding, "Zero"), FALSE)
    IN  IF r.value = None THEN Return("InvalidDayOfMonth", its, r.rest)
        ELSE Return("Ok", [its EXCEPT !.day = NonZeroU8_new(unwrap(r.value))],
                    r.rest)

\* parse_e dropping the override of the template
parse_e_AlwaysSpace(its, str, padding) ==
    parse_d(its, str, "Space")

parse_e(its, str, padding) ==
    parse_d(its, str, default_to(padding, "Space"))

parse_g(its, str, padding) ==
    LET r == try_consume_exact_digits(str, 2, default_to(padding, "Zero"), FALSE)
    IN  IF r.value = None THEN Return("InvalidYear", its, r.rest)
        ELSE Return("Ok",
                    [its EXCEPT !.week_based_year =
                        Some(div(unwrap_or(its.week_based_year, 0), 100) * 100
                             + unwrap(r.value))],
                    r.rest)

parse_G(its, str, padding) ==
    LET m    == try_consume_first_match(str,
                    <<<<"+", "Positive">>, <<"-", "Negative">>>>)
        sign == unwrap_or(m.value, "Positive")
        n    == consume_padding(m.rest, default_to(padding, "Zero"), 4)
        r    == try_consume_digits_in_range(Drop(m.rest, n), 1, 6,
                                            -100000, 100000)
    IN  IF r.value = None THEN Return("InvalidYear", its, r.rest)
        ELSE Return("Ok",
                    [its EXCEPT !.week_based_year =
                        Some(SignMul(sign, unwrap(r.value)))],
                    r.rest)

parse_j(its, str, padding) ==
    LET r == try_consume_exact_digits(str, 3, default_to(padding, "Zero"), TRUE)
    IN  IF r.value = None THEN Return("InvalidDayOfYear", its, r.rest)
        ELSE Return("Ok", [its EXCEPT !.ordinal_day = Some(unwrap(r.value))],
                    r.rest)

parse_m(its, str, padding) ==
    LET r == try_consume_exact_digits(str, 2, default_to(padding, "Zero"), TRUE)
    IN  IF r.value = None THEN Return("InvalidMonth", its, r.rest)
        ELSE Return("Ok", [its EXCEPT !.month = Some(unwrap(r.value))], r.rest)

parse_u(its, str) ==
    LET r == try_consume_first_match(str, zip(Numbers(1, 7), WEEKDAYS))
    IN  IF r.value = None THEN Return("InvalidDayOfWeek", its, r.rest)
        ELSE Return("Ok", [its EXCEPT !.weekday = Some(unwrap(r.value))], r.rest)

parse_U(its, str, padding) ==
    LET r == try_consume_exact_digits_in_range(str, 2, 0, 53,
                                               default_to(padding, "Zero"))
    IN  IF r.value = None THEN Return("InvalidWeek", its, r.rest)
        ELSE Return("Ok", [its EXCEPT !.sunday_week = Some(unwrap(r.value))],
                    r.rest)

parse_V(its, str, padding) ==
    LET r == try_consume_exact_digits_in_range(str, 2, 1, 53,
                                               default_to(padding, "Zero"))
    IN  IF r.value = None THEN Return("InvalidWeek", its, r.rest)
        ELSE Return("Ok",
                    [its EXCEPT !.iso_week = NonZeroU8_new(unwrap(r.value))],
                    r.rest)

parse_w(its, str) ==
    LET weekdays == rotate_left(WEEKDAYS, 1)
        r == try_consume_first_match(str, zip(Numbers(0, 7), weekdays))
    IN  IF r.value = None THEN Return("InvalidDayOfWeek", its, r.rest)
        ELSE Return("Ok", [its EXCEPT !.weekday = Some(unwrap(r.value))], r.rest)

parse_W(its, str, padding) ==
    LET r == try_consume_exact_digits_in_range(str, 2, 0, 53,
                                               default_to(padding, "Zero"))
    IN  IF r.value = None THEN Return("InvalidWeek", its, r.rest)
        ELSE Return("Ok", [its EXCEPT !.monday_week = Some(unwrap(r.value))],
                    r.rest)

\* parse_y writing the century it keeps before it reads the two digits
parse_y_CenturyFirst(its, str, padding) ==
    LET kept == [its EXCEPT !.year =
                    Some(div(unwrap_or(its.year, 0), 100) * 100)]
        r == try_consume_exact_digits(str, 2, default_to(padding, "Zero"), FALSE)
    IN  IF r.value = None THEN Return("InvalidYear", kept, r.rest)
        ELSE Return("Ok",
                    [kept EXCEPT !.year = Some(unwrap(kept.year) + unwrap(r.value))],
                    r.rest)

parse_y(its, str, padding) ==
    LET r == try_consume_exact_digits(str, 2, default_to(padding, "Zero"), FALSE)
    IN  IF r.value = None THEN Return("InvalidYear", its, r.rest)
        ELSE Return("Ok",
                    [its EXCEPT !.year =
                        Some(div(unwrap_or(its.year, 0), 100) * 100
                             + unwrap(r.value))],
                    r.rest)

parse_Y(its, str, padding) ==
    LET m    == try_consume_first_match(str,
                    <<<<"+", "Positive">>, <<"-", "Negative">>>>)
        sign == unwrap_or(m.value, "Positive")
        n    == consume_padding(m.rest, default_to(padding, "Zero"), 4)
        r    == try_consume_digits_in_range(Drop(m.rest, n), 1, 6,
                                            -100000, 100000)
    IN  IF r.value = None THEN Return("InvalidYear", its, r.rest)
        ELSE Return("Ok",
                    [its EXCEPT !.year = Some(SignMul(sign, unwrap(r.value)))],
                    r.rest)

(***************************************************************************)
(* The format functions.  Each gives the text it writes.                   *)
(***************************************************************************)
\* Display of an i32
Display(v) == IF v < 0 THEN "-" \o to_string(-v) ELSE to_string(v)

\* pad!(f, padding(default), width, value): "{}", "{:width}" or "{:0width}"
pad(padding, default, width, value) ==
    LET p   == default_to(padding, default)
        txt == Display(value)
    IN  CASE p = "None"  -> txt
          [] p = "Space" -> Repeat(" ", width - Len(txt)) \o txt
          [] p = "Zero"  ->
                (IF value < 0 THEN "-" ELSE "")
                \o Repeat("0", width - Len(txt)) \o to_string(Abs(value))

fmt_a(date, lang) ==
    short_week_days(lang)[number_days_from_monday(date.weekday) + 1]

fmt_A(date, lang) ==
    week_days(lang)[number_days_from_monday(date.weekday) + 1]

fmt_b(date, lang) == short_month_names(lang)[date.month]

fmt_B(date, lang) == month_names(lang)[date.month]

fmt_C(date, padding) == pad(padding, "Zero", 2, div(date.year, 100))

fmt_y(date, padding) == pad(padding, "Zero", 2, rem_euclid(date.year, 100))

fmt_w(date) == Display(number_days_from_sunday(date.weekday))

\* fmt_Y writing the '+' one year late
fmt_Y_PlusAbove(date, padding) ==
    LET year == date.year
    IN  (IF year > 10000 THEN "+" ELSE "") \o pad(padding, "Zero", 4, year)

\* fmt_Y writing the '+' for every year that is not negative
fmt_Y_PlusFromZero(date, padding) ==
    LET year == date.year
    IN  (IF year >= 0 THEN "+" ELSE "") \o pad(padding, "Zero", 4, year)

fmt_Y(date, padding) ==
    LET year == date.year
    IN  (IF year >= 10000 THEN "+" ELSE "") \o pad(padding, "Zero", 4, year)

\* %z of a UtcOffset: the sign, then hours and minutes, two digits each
fmt_z(offset) ==
    LET hours   == div(offset.seconds, 3600)
        minutes == div(offset.seconds, 60)
    IN  (IF offset.seconds < 0 THEN "-" ELSE "+")
        \o pad("Zero", "Zero", 2, Abs(hours))
        \o pad("Zero", "Zero", 2, Abs(minutes - 60 * hours))

(***************************************************************************)
(* UtcOffset (src/utc_offset.rs).  A u32 is kept as its two 16 bit halves, *)
(* [hi, lo], since the model's integers end at 2^31 - 1.  A constructor    *)
(* gives the set of the outcomes a build can produce: where an arithmetic  *)
(* overflow is checked the call panics, where it is not the value wraps.   *)
(***************************************************************************)
I8_MIN == -128
I16_MIN == -32768
I32_MIN == -2147483647 - 1

\* `x as i8` of a u8 and `x as i16` of a u16: the same bits
as_i8(x) == IF x >= 128 THEN x - 256 ELSE x
as_i16(x) == IF x >= 32768 THEN x - 65536 ELSE x
\* `x as i32` of a u32
as_i32(x) == as_i16(x.hi) * 65536 + x.lo

\* unary `-` of a signed integer whose least value is min: {} is the panic
\* of a build that checks overflow
neg(x, min) == IF x = min THEN {None, Some(min)} ELSE {Some(-x)}

Ok(offset) == [result |-> "Ok", offset |-> offset]
Panicked == [result |-> "Panic", offset |-> [seconds |-> 0]]
Err(e) == [result |-> e, offset |-> [seconds |-> 0]]

seconds(secs) == [seconds |-> secs]
UTC == seconds(0)
minutes(mins) == seconds(mins * 60)
hours(hrs) == seconds(hrs * 3600)

\* %z: a sign, two digits of hours and two of minutes
parse_z(its, str) ==
    LET m  == try_consume_first_match(str,
                  <<<<"+", "Positive">>, <<"-", "Negative">>>>)
        hh == try_consume_exact_digits(m.rest, 2, "Zero", FALSE)
        mm == try_consume_exact_digits(hh.rest, 2, "Zero", FALSE)
    IN  IF m.value = None THEN Return("InvalidOffset", its, m.rest)
        ELSE IF hh.value = None THEN Return("InvalidOffset", its, hh.rest)
        ELSE IF mm.value = None THEN Return("InvalidOffset", its, mm.rest)
        ELSE Return("Ok",
                    [its EXCEPT !.offset =
                        Some(minutes(SignMul(unwrap(m.value),
                                             unwrap(hh.value) * 60
                                             + unwrap(mm.value))))],
                    mm.rest)

\* try_from_parsed_items giving UTC where the accumulator has no offset
try_from_parsed_items_OrUTC(its) == Ok(unwrap_or(its.offset, UTC))

try_from_parsed_items(its) ==
    IF its.offset = None THEN Err("InsufficientInformation")
    ELSE Ok(unwrap(its.offset))

east_hours(hrs) == {Ok(hours(as_i8(hrs)))}
west_hours(hrs) ==
    {IF n = None THEN Panicked ELSE Ok(hours(unwrap(n))) :
        n \in neg(as_i8(hrs), I8_MIN)}
east_minutes(mins) == {Ok(minutes(as_i16(mins)))}
west_minutes(mins) ==
    {IF n = None THEN Panicked ELSE Ok(minutes(unwrap(n))) :
        n \in neg(as_i16(mins), I16_MIN)}
east_seconds(secs) == {Ok(seconds(as_i32(secs)))}
west_seconds(secs) ==
    {IF n = None THEN Panicked ELSE Ok(seconds(unwrap(n))) :
        n \in neg(as_i32(secs), I32_MIN)}

(***************************************************************************)
(* The inputs that are enumerated.                                         *)
(***************************************************************************)
Window(c) == {n \in (c - YearWindow)..(c + YearWindow) : n >= 0}

\* the years around zero, the `+` threshold of %Y and the end of its range
Years ==
    LET ms == {n \in Window(0) \cup Window(10000) \cup Window(100000)
                     \cup {50, 1987} : n <= 100000}
    IN  ms \cup {-m : m \in ms}

Dates ==
    [year : Years, month : {1}, weekday : {"Monday"}]
    \cup [year : {1987}, month : 1..12, weekday : {"Monday"}]
    \cup [year : {1987}, month : {1}, weekday : Weekday]

Offsets == [seconds : {-3600, -60, -1, 0, 1, 60, 3600}]

\* every u8; the u16 and the u32 around zero, the sign bit and the greatest
U8s == 0..255
U16s == {0, 1, 60, 1439, 32767, 32768, 32769, 65535}
U32s == [hi : {0, 1, 32767, 32768, 65535}, lo : {0, 1, 3600, 65535}]

NoDate == [year |-> 0, month |-> 1, weekday |-> "Monday"]
NoOffset == [seconds |-> 0]

\* the magnitudes around zero and the end of the range of %Y
Magnitudes == Window(0) \cup Window(100000) \cup {999999}

\* an optional sign, leading zeros and a magnitude, at most six digits
YearTexts ==
    {sg \o Repeat("0", k) \o to_string(m) :
        sg \in {"", "+", "-"},
        <<k, m>> \in {km \in {0, 3, 4} \X Magnitudes :
                        km[1] + Len(to_string(km[2])) <= 6}}

TwoDigitTexts == {"00", "05", "13", "32", "54", "99", " 5", "  "}

ThreeDigitTexts == {"000", "001", "366", "367", "999", "  5"}

OneCharTexts == DigitChars \cup {"", "x"}

FirstTexts == {"1987", "-1987", "-0100", "-50"}

SecondTexts == {"21", "00"}

Texts ==
    YearTexts \cup TwoDigitTexts \cup ThreeDigitTexts \cup OneCharTexts
    \cup FirstTexts
    \cup {a \o b : a \in {"20", "00", "05"}, b \in SecondTexts}
    \cup {a \o "-" \o b : a \in FirstTexts, b \in SecondTexts}

\* the literal characters of the templates
LiteralChars == {"-"}

(***************************************************************************)
(* The state machine: a caller formats a value, or parses a text, with a   *)
(* template whose directives and literals it chooses.                      *)
(***************************************************************************)
NoCall ==
    [op |-> "none", padding |-> "Default", items |-> ParsedItems_new, s |-> ""]

NoFormat ==
    [op |-> "none", padding |-> "Default", date |-> NoDate, offset |-> NoOffset]

NoOffsetMade == [op |-> "none", arg |-> 0, result |-> "None", offset |-> UTC]

Init ==
    /\ phase = "idle"
    /\ language = "en"
    /\ items = ParsedItems_new
    /\ s = ""
    /\ result = "None"
    /\ call = NoCall
    /\ out = ""
    /\ fmtcall = NoFormat
    /\ input = ""
    /\ template = <<>>
    /\ made = NoOffsetMade

\* format(value, template, language) with a template of one directive
Written(op, padding, date, offset, lang, text) ==
    /\ phase = "idle"
    /\ phase' = "formatted"
    /\ language' = lang
    /\ out' = text
    /\ fmtcall' = [op |-> op, padding |-> padding, date |-> date, offset |-> offset]
    /\ UNCHANGED <<items, s, result, call, input, template, made>>

Format_a ==
    /\ phase = "idle"
    /\ \E date \in Dates, lang \in Language :
           Written("fmt_a", "Default", date, NoOffset, lang, fmt_a(date, lang))

Format_A ==
    /\ phase = "idle"
    /\ \E date \in Dates, lang \in Language :
           Written("fmt_A", "Default", date, NoOffset, lang, fmt_A(date, lang))

Format_b ==
    /\ phase = "idle"
    /\ \E date \in Dates, lang \in Language :
           Written("fmt_b", "Default", date, NoOffset, lang, fmt_b(date, lang))

Format_B ==
    /\ phase = "idle"
    /\ \E date \in Dates, lang \in Language :
           Written("fmt_B", "Default", date, NoOffset, lang, fmt_B(date, lang))

Format_C ==
    /\ phase = "idle"
    /\ \E date \in Dates, padding \in Padding :
           Written("fmt_C", padding, date, NoOffset, "en", fmt_C(date, padding))

Format_y ==
    /\ phase = "idle"
    /\ \E date \in Dates, padding \in Padding :
           Written("fmt_y", padding, date, NoOffset, "en", fmt_y(date, padding))

\* the template %C-%y, both directives with the same padding
Format_C_y ==
    /\ phase = "idle"
    /\ \E date \in Dates, padding \in Padding :
           Written("fmt_C-fmt_y", padding, date, NoOffset, "en",
                   fmt_C(date, padding) \o "-" \o fmt_y(date, padding))

Format_w ==
    /\ phase = "idle"
    /\ \E date \in Dates :
           Written("fmt_w", "Default", date, NoOffset, "en", fmt_w(date))

Format_Y ==
    /\ phase = "idle"
    /\ \E date \in Dates, padding \in Padding :
           Written("fmt_Y", padding, date, NoOffset, "en", fmt_Y(date, padding))

Format_z ==
    /\ phase = "idle"
    /\ \E offset \in Offsets :
           Written("fmt_z", "Default", NoDate, offset, "en", fmt_z(offset))

\* a caller makes a UtcOffset with the constructor op
Constructed(op, arg, outcomes) ==
    /\ phase = "idle"
    /\ phase' = "constructed"
    /\ \E o \in outcomes :
          made' = [op |-> op, arg |-> arg, result |-> o.result,
                   offset |-> o.offset]
    /\ UNCHANGED <<language, items, s, result, call, out, fmtcall, input,
                   template>>

East_hours ==
    /\ phase = "idle"
    /\ \E hrs \in U8s : Constructed("east_hours", hrs, east_hours(hrs))

West_hours ==
    /\ phase = "idle"
    /\ \E hrs \in U8s : Constructed("west_hours", hrs, west_hours(hrs))

East_minutes ==
    /\ phase = "idle"
    /\ \E mins \in U16s : Constructed("east_minutes", mins, east_minutes(mins))

West_minutes ==
    /\ phase = "idle"
    /\ \E mins \in U16s : Constructed("west_minutes", mins, west_minutes(mins))

East_seconds ==
    /\ phase = "idle"
    /\ \E secs \in U32s : Constructed("east_seconds", secs, east_seconds(secs))

West_seconds ==
    /\ phase = "idle"
    /\ \E secs \in U32s : Constructed("west_seconds", secs, west_seconds(secs))

\* parse(s, format, language): a new accumulator and the whole input
Parse ==
    /\ phase = "idle"
    /\ \E text \in Texts :
        /\ input' = text
        /\ s' = text
    /\ language' = "en"
    /\ phase' = "parsing"
    /\ items' = ParsedItems_new
    /\ UNCHANGED <<result, call, out, fmtcall, template, made>>

\* the text that was written is parsed with the template and the language
\* it was written with
Reparse ==
    /\ phase = "formatted"
    /\ phase' = "reparsing"
    /\ input' = out
    /\ s' = out
    /\ items' = ParsedItems_new
    /\ UNCHANGED <<language, result, call, out, fmtcall, template, made>>

\* the parse function of the directive a format function belongs to
ParseOf(fmt) ==
    CASE fmt = "fmt_a" -> "parse_a"
      [] fmt = "fmt_A" -> "parse_A"
      [] fmt = "fmt_b" -> "parse_b"
      [] fmt = "fmt_B" -> "parse_B"
      [] fmt = "fmt_C" -> "parse_C"
      [] fmt = "fmt_y" -> "parse_y"
      [] fmt = "fmt_w" -> "parse_w"
      [] fmt = "fmt_Y" -> "parse_Y"
      [] fmt = "fmt_z" -> "parse_z"
      [] OTHER         -> "none"

\* the template a text that was written is parsed back with: that of the
\* format call
TemplateOf(fc) ==
    IF fc.op = "fmt_C-fmt_y"
    THEN <<<<"parse_C", fc.padding>>, <<"literal", "-">>,
           <<"parse_y", fc.padding>>>>
    ELSE <<<<ParseOf(fc.op), fc.padding>>>>

\* the entry is the one the template of the format call has next
IsNext(entry) ==
    /\ Len(template) < Len(TemplateOf(fmtcall))
    /\ TemplateOf(fmtcall)[Len(template) + 1] = entry

\* the number of directives among the entries of a template
NDirectives(tpl) == Cardinality({i \in 1..Len(tpl) : tpl[i][1] # "literal"})

\* a literal character of the template is matched against the next
\* character of the input; a mismatch ends the parse
Literal ==
    /\ phase \in {"parsing", "reparsing"}
    /\ result \in {"None", "Ok"}
    /\ \E c \in LiteralChars :
        /\ phase = "reparsing" => IsNext(<<"literal", c>>)
        /\ IF starts_with(s, c)
           THEN s' = Drop(s, Len(c)) /\ result' = result
           ELSE s' = s /\ result' = "UnexpectedCharacter"
        /\ template' = Append(template, <<"literal", c>>)
    /\ UNCHANGED <<phase, language, items, call, out, fmtcall, input, made>>

\* a directive of the template calls its parse function; the first error
\* ends the parse.  Of the templates a caller may write, those are run whose
\* first directive alone may carry a padding override.
Directive(op, padding, r) ==
    /\ \/ /\ phase = "parsing"
          /\ NDirectives(template) < MaxDirectives
          /\ padding = "Default" \/ NDirectives(template) = 0
       \/ /\ phase = "reparsing"
          /\ IsNext(<<op, padding>>)
    /\ result \in {"None", "Ok"}
    /\ template' = Append(template, <<op, padding>>)
    /\ call' = [op |-> op, padding |-> padding, items |-> items, s |-> s]
    /\ items' = r.items
    /\ s' = r.s
    /\ result' = r.result
    /\ UNCHANGED <<phase, language, out, fmtcall, input, made>>

Parse_a ==
    /\ phase \in {"parsing", "reparsing"}
    /\ Directive("parse_a", "Default", parse_a(items, s, language))

Parse_A ==
    /\ phase \in {"parsing", "reparsing"}
    /\ Directive("parse_A", "Default", parse_A(items, s, language))

Parse_b ==
    /\ phase \in {"parsing", "reparsing"}
    /\ Directive("parse_b", "Default", parse_b(items, s, language))

Parse_B ==
    /\ phase \in {"parsing", "reparsing"}
    /\ Directive("parse_B", "Default", parse_B(items, s, language))

Parse_C ==
    /\ phase \in {"parsing", "reparsing"}
    /\ \E p \in Padding : Directive("parse_C", p, parse_C(items, s, p))

Parse_d ==
    /\ phase \in {"parsing", "reparsing"}
    /\ \E p \in Padding : Directive("parse_d", p, parse_d(items, s, p))

Parse_e ==
    /\ phase \in {"parsing", "reparsing"}
    /\ \E p \in Padding : Directive("parse_e", p, parse_e(items, s, p))

Parse_g ==
    /\ phase \in {"parsing", "reparsing"}
    /\ \E p \in Padding : Directive("parse_g", p, parse_g(items, s, p))

Parse_G ==
    /\ phase \in {"parsing", "reparsing"}
    /\ \E p \in Padding : Directive("parse_G", p, parse_G(items, s, p))

Parse_j ==
    /\ phase \in {"parsing", "reparsing"}
    /\ \E p \in Padding : Directive("parse_j", p, parse_j(items, s, p))

Parse_m ==
    /\ phase \in {"parsing", "reparsing"}
    /\ \E p \in Padding : Directive("parse_m", p, parse_m(items, s, p))

Parse_u ==
    /\ phase \in {"parsing", "reparsing"}
    /\ Directive("parse_u", "Default", parse_u(items, s))

Parse_U ==
    /\ phase \in {"parsing", "reparsing"}
    /\ \E p \in Padding : Directive("parse_U", p, parse_U(items, s, p))

Parse_V ==
    /\ phase \in {"parsing", "reparsing"}
    /\ \E p \in Padding : Directive("parse_V", p, parse_V(items, s, p))

Parse_w ==
    /\ phase \in {"parsing", "reparsing"}
    /\ Directive("parse_w", "Default", parse_w(items, s))

Parse_W ==
    /\ phase \in {"parsing", "reparsing"}
    /\ \E p \in Padding : Directive("parse_W", p, parse_W(items, s, p))

Parse_y ==
    /\ phase \in {"parsing", "reparsing"}
    /\ \E p \in Padding : Directive("parse_y", p, parse_y(items, s, p))

Parse_Y ==
    /\ phase \in {"parsing", "reparsing"}
    /\ \E p \in Padding : Directive("parse_Y", p, parse_Y(items, s, p))

Parse_z ==
    /\ phase \in {"parsing", "reparsing"}
    /\ Directive("parse_z", "Default", parse_z(items, s))

\* the end of UtcOffset::parse: the parse returned Ok(items), and the
\* accumulator is made into a UtcOffset
Try_from_parsed_items ==
    /\ phase \in {"parsing", "reparsing"}
    /\ result \in {"None", "Ok"}
    /\ phase = "reparsing" => template = TemplateOf(fmtcall)
    /\ phase' = "finalized"
    /\ made' = [op     |-> "try_from_parsed_items",
                arg    |-> 0,
                result |-> try_from_parsed_items(items).result,
                offset |-> try_from_parsed_items(items).offset]
    /\ UNCHANGED <<language, items, s, result, call, out, fmtcall, input,
                   template>>

Next ==
    \/ Format_a \/ Format_A \/ Format_b \/ Format_B
    \/ Format_C \/ Format_y \/ Format_C_y
    \/ Format_w \/ Format_Y \/ Format_z
    \/ East_hours \/ West_hours \/ East_minutes \/ West_minutes
    \/ East_seconds \/ West_seconds
    \/ Parse \/ Reparse \/ Literal
    \/ Parse_a \/ Parse_A \/ Parse_b \/ Parse_B \/ Parse_C \/ Parse_d
    \/ Parse_e \/ Parse_g \/ Parse_G \/ Parse_j \/ Parse_m \/ Parse_u
    \/ Parse_U \/ Parse_V \/ Parse_w \/ Parse_W \/ Parse_y \/ Parse_Y
    \/ Parse_z \/ Try_from_parsed_items

Spec == Init /\ [][Next]_vars

(***************************************************************************)
(* Properties.                                                             *)
(***************************************************************************)
\* the last step of the parse was a call of the parse function op, so that
\* `call` holds what it was given and items, s, result what it left
JustRan(op) ==
    /\ phase \in {"parsing", "reparsing"}
    /\ template # <<>>
    /\ template[Len(template)][1] = op
    /\ call.op = op

\* the template that has been run is the single directive op with padding
Ran1(op, padding) == template = <<<<op, padding>>>>

\* the template that has been run is two directives and no literal
Ran2(op1, padding1, op2, padding2) ==
    template = <<<<op1, padding1>>, <<op2, padding2>>>>

\* the text that was written by the format function fmt has been parsed
\* back with the directive's parse function and the same padding
RoundTrip(fmt) ==
    /\ phase = "reparsing"
    /\ fmtcall.op = fmt
    /\ Ran1(ParseOf(fmt), fmtcall.padding)

FourDigits(str) == Len(str) = 4 /\ AllDigits(str)

\* C1: from an empty accumulator, the template %C%y (default padding, no
\* separator) on a two-digit century followed by a two-digit year succeeds,
\* consumes the four characters and leaves year = century * 100 + two digits.
C1_CenturyYearMerge ==
    (phase = "parsing" /\ FourDigits(input)) =>
        /\ Ran1("parse_C", "Default") => result = "Ok"
        /\ Ran2("parse_C", "Default", "parse_y", "Default") =>
              /\ result = "Ok"
              /\ s = ""
              /\ items.year = Some(FromDigits(Take(input, 2)) * 100
                                   + FromDigits(Drop(input, 2)))

\* C2: the text fmt_Y writes for a year with the default padding is parsed by
\* parse_Y with the default padding, into an empty accumulator, to that year,
\* and is consumed whole.
C2_RoundTripY ==
    (RoundTrip("fmt_Y") /\ fmtcall.padding = "Default") =>
        /\ result = "Ok"
        /\ s = ""
        /\ items.year = Some(fmtcall.date.year)

\* C3: parse_w reads the digit fmt_w writes for a weekday (its number of days
\* from Sunday) as that weekday, and fails with InvalidDayOfWeek on any input
\* that does not begin with a digit 0..6.
C3_USWeekday ==
    /\ RoundTrip("fmt_w") =>
          /\ result = "Ok"
          /\ items.weekday = Some(fmtcall.date.weekday)
    /\ (JustRan("parse_w")
        /\ ~(\E d \in 0..6 : starts_with(call.s, to_string(d)))) =>
          result = "InvalidDayOfWeek"

InRange(o, lo, hi) == \A v \in o : lo <= v /\ v <= hi

\* C4: every field of the accumulator is absent or within its declared
\* range: month 1..12, day 1..31, ordinal day 1..366, ISO week 1..53, Sunday
\* and Monday based week 0..53.
C4_AccumulatorRanges ==
    /\ InRange(items.month, 1, 12)
    /\ InRange(items.day, 1, 31)
    /\ InRange(items.ordinal_day, 1, 366)
    /\ InRange(items.iso_week, 1, 53)
    /\ InRange(items.sunday_week, 0, 53)
    /\ InRange(items.monday_week, 0, 53)

Contains(str, c) == \E i \in 1..Len(str) : CharAt(str, i) = c

ZeroFormatted ==
    \/ fmtcall.op = "fmt_Y" /\ fmtcall.date.year = 0
    \/ fmtcall.op = "fmt_z" /\ fmtcall.offset.seconds = 0

\* C5 as stated: a zero year written with %Y and a zero offset written with
\* %z always show a '+' sign and never a '-' sign.
C5_ZeroShowsPlus ==
    ZeroFormatted => Contains(out, "+") /\ ~Contains(out, "-")

\* C5, amended: a zero offset written with %z begins with '+' and shows no
\* '-'; a zero year written with %Y shows no sign at all, neither '-' nor '+'.
C5_ZeroSign ==
    /\ (fmtcall.op = "fmt_z" /\ fmtcall.offset.seconds = 0) =>
          starts_with(out, "+") /\ ~Contains(out, "-")
    /\ (fmtcall.op = "fmt_Y" /\ fmtcall.date.year = 0) =>
          ~Contains(out, "-") /\ ~Contains(out, "+")

C5_Witness ==
    /\ fmtcall.op = "fmt_Y"
    /\ fmtcall.padding = "Default"
    /\ fmtcall.date.year = 0
    /\ out = "0000"

\* C6: the text fmt_Y writes begins with '+' if and only if the year is at
\* least 10000, and for the year 0 it holds no '-'.
C6_FullYearPlus ==
    fmtcall.op = "fmt_Y" =>
        /\ starts_with(out, "+") <=> fmtcall.date.year >= 10000
        /\ fmtcall.date.year = 0 => ~Contains(out, "-")

C6_Witness ==
    /\ fmtcall.op = "fmt_Y"
    /\ fmtcall.date.year = 10000
    /\ out = "+10000"

\* C7: a successful parse_y on an accumulator whose year is E (0 when absent)
\* and two digits dd keeps the century of E and replaces its last two digits:
\* the century the new year has is that of E, and its last two digits are dd.
C7_TwoDigitYearMerge ==
    (JustRan("parse_y") /\ result = "Ok"
     /\ Len(call.s) >= 2 /\ AllDigits(Take(call.s, 2))) =>
        LET E  == unwrap_or(call.items.year, 0)
            dd == FromDigits(Take(call.s, 2))
            year == unwrap(items.year)
        IN  /\ is_some(items.year)
            /\ div(year, 100) = div(E, 100)
            /\ rem_euclid(year, 100) = dd

\* C8: in each language, the i-th name of each of the four tables, parsed
\* with the directive that formats from the table, is consumed whole and
\* read as the i-th weekday from Monday, or as the month i from January.
C8_LocaleRoundTrip ==
    phase = "reparsing" =>
        /\ \A i \in 1..7 :
              /\ (Ran1("parse_A", "Default") /\ input = week_days(language)[i]) =>
                    /\ result = "Ok"
                    /\ s = ""
                    /\ items.weekday = Some(WEEKDAYS[i])
              /\ (Ran1("parse_a", "Default")
                  /\ input = short_week_days(language)[i]) =>
                    /\ result = "Ok"
                    /\ s = ""
                    /\ items.weekday = Some(WEEKDAYS[i])
        /\ \A i \in 1..12 :
              /\ (Ran1("parse_B", "Default") /\ input = month_names(language)[i]) =>
                    /\ result = "Ok"
                    /\ s = ""
                    /\ items.month = Some(i)
              /\ (Ran1("parse_b", "Default")
                  /\ input = short_month_names(language)[i]) =>
                    /\ result = "Ok"
                    /\ s = ""
                    /\ items.month = Some(i)

C8_Witness ==
    /\ phase = "reparsing"
    /\ language = "en"
    /\ input = "June"
    /\ Ran1("parse_b", "Default")
    /\ s = ""
    /\ items.month = Some(6)

\* C9: with no override %d rejects " 5" with InvalidDayOfMonth and accepts
\* two digits only, while %e reads " 5" as day 5; with an override Space or
\* Zero both directives follow the override and not their default.
C9_DayPadding ==
    (JustRan("parse_d") \/ JustRan("parse_e")) =>
        LET resolved ==
                default_to(call.padding,
                           IF call.op = "parse_e" THEN "Space" ELSE "Zero")
        IN  /\ (resolved = "Zero" /\ starts_with(call.s, " ")) =>
                  result = "InvalidDayOfMonth"
            /\ (resolved = "Zero" /\ result = "Ok") =>
                  /\ Len(call.s) >= 2
                  /\ AllDigits(Take(call.s, 2))
                  /\ s = Drop(call.s, 2)
            /\ (resolved = "Space" /\ starts_with(call.s, " 5")) =>
                  /\ result = "Ok"
                  /\ items.day = Some(5)
                  /\ s = Drop(call.s, 2)

C9_Witness ==
    /\ JustRan("parse_e")
    /\ call.padding = "Default"
    /\ call.s = " 5"
    /\ result = "Ok"
    /\ items.day = Some(5)

\* an optional sign followed by one to six digits
SignedDigits(str) ==
    LET body == IF starts_with(str, "+") \/ starts_with(str, "-")
                THEN Drop(str, 1) ELSE str
    IN  Len(body) \in 1..6 /\ AllDigits(body)

SignedValue(str) ==
    IF starts_with(str, "-") THEN -FromDigits(Drop(str, 1))
    ELSE IF starts_with(str, "+") THEN FromDigits(Drop(str, 1))
    ELSE FromDigits(str)

\* C10: parse_Y with the default padding reads an optional sign and one to
\* six digits of magnitude at most 100000 as that signed year, "0" and "0000"
\* included, and fails with InvalidYear when the magnitude is greater.
C10_SignedYear ==
    (phase = "parsing" /\ Ran1("parse_Y", "Default") /\ SignedDigits(input)) =>
        IF Abs(SignedValue(input)) <= 100000
        THEN /\ result = "Ok"
             /\ s = ""
             /\ items.year = Some(SignedValue(input))
        ELSE result = "InvalidYear"

Easterly == {"east_hours", "east_minutes", "east_seconds"}
Westerly == {"west_hours", "west_minutes", "west_seconds"}

\* the seconds a u8 of hours, a u16 of minutes or a u32 of seconds is: the
\* empty set when it is more than an i32 holds
SecondsOf(op, arg) ==
    CASE op \in {"east_hours", "west_hours"} -> {3600 * arg}
      [] op \in {"east_minutes", "west_minutes"} -> {60 * arg}
      [] op \in {"east_seconds", "west_seconds"} ->
            IF arg.hi >= 32768 THEN {} ELSE {arg.hi * 65536 + arg.lo}

\* C11: east_hours(h), east_minutes(m) and east_seconds(s) return the offset
\* of +3600*h, +60*m and +s seconds, and the west_ constructors the offset of
\* -3600*h, -60*m and -s seconds, for every u8 h, u16 m and u32 s; no
\* easterly offset is negative and no westerly offset is positive.
C11_DirectionalConstructors ==
    phase = "constructed" =>
        /\ made.result = "Ok"
        /\ made.op \in Easterly =>
              /\ Some(made.offset.seconds) = SecondsOf(made.op, made.arg)
              /\ made.offset.seconds >= 0
        /\ made.op \in Westerly =>
              /\ \E n \in SecondsOf(made.op, made.arg) :
                    made.offset.seconds = -n
              /\ made.offset.seconds <= 0

\* the template that has been run holds the directive op
HasDirective(op) == \E i \in 1..Len(template) : template[i][1] = op

\* C12: try_from_parsed_items returns Ok(v) exactly when the accumulator's
\* offset is present with the value v and Err(InsufficientInformation)
\* exactly when it is absent; after successful date directives alone, none
\* of which writes the offset, it fails with InsufficientInformation.
C12_OffsetFinalizer ==
    phase = "finalized" =>
        /\ \A v \in items.offset :
              made.result = "Ok" /\ made.offset = v
        /\ items.offset = None <=> made.result = "InsufficientInformation"
        /\ made.result = "Ok" => items.offset = Some(made.offset)
        /\ ~HasDirective("parse_z") =>
              made.result = "InsufficientInformation"

C12_Witness ==
    /\ phase = "finalized"
    /\ Ran1("parse_z", "Default")
    /\ input = "-0100"
    /\ made.result = "Ok"
    /\ made.offset = hours(-1)

C12_WitnessAbsent ==
    /\ phase = "finalized"
    /\ template = <<<<"parse_Y", "Default">>, <<"literal", "-">>,
                    <<"parse_d", "Default">>>>
    /\ input = "1987-21"
    /\ result = "Ok"
    /\ made.result = "InsufficientInformation"

\* the errors of the parse functions of the date directives
DateErrors ==
    {"InvalidDayOfWeek", "InvalidMonth", "InvalidYear", "InvalidDayOfMonth",
     "InvalidDayOfYear", "InvalidWeek"}

\* C13: when the parse function of a date directive returns an error, every
\* field of the accumulator holds the value it had before the call, the
\* field the directive writes included; so for the directives C, y and g,
\* which read the field they write.
C13_FailureKeepsItems ==
    (phase \in {"parsing", "reparsing"} /\ result \in DateErrors) =>
        /\ call.op = template[Len(template)][1]
        /\ items = call.items

C13_Witness ==
    /\ JustRan("parse_y")
    /\ Ran2("parse_Y", "Default", "parse_y", "Default")
    /\ input = "-1987-21"
    /\ result = "InvalidYear"
    /\ call.items.year = Some(-1987)
    /\ items.year = Some(-1987)

\* the field of the accumulator the parse function of a date directive
\* assigns
FieldOf(op) ==
    CASE op \in {"parse_a", "parse_A", "parse_u", "parse_w"} -> "weekday"
      [] op \in {"parse_b", "parse_B", "parse_m"} -> "month"
      [] op \in {"parse_d", "parse_e"} -> "day"
      [] op = "parse_j" -> "ordinal_day"
      [] op = "parse_V" -> "iso_week"
      [] op = "parse_U" -> "sunday_week"
      [] op = "parse_W" -> "monday_week"
      [] op \in {"parse_C", "parse_y", "parse_Y"} -> "year"
      [] op \in {"parse_g", "parse_G"} -> "week_based_year"

DateDirectives ==
    {"parse_a", "parse_A", "parse_b", "parse_B", "parse_C", "parse_d",
     "parse_e", "parse_g", "parse_G", "parse_j", "parse_m", "parse_u",
     "parse_U", "parse_V", "parse_w", "parse_W", "parse_y", "parse_Y"}

\* C14: when the parse function of a date directive returns Ok, the field
\* of the accumulator the directive owns is present, and no field that was
\* present before the call is absent after it.
C14_SuccessPopulates ==
    (result = "Ok" /\ call.op \in DateDirectives) =>
        /\ is_some(items[FieldOf(call.op)])
        /\ \A f \in DOMAIN items : is_some(call.items[f]) => is_some(items[f])

\* C15: for every year y, negative years included, the century fmt_C
\* prints and the two digits fmt_y prints are a pair (c, d) with
\* c * 100 + d = y, and the text of %C-%y with the default padding is
\* parsed back by %C-%y to the year y.
C15_CenturyYearHalves ==
    fmtcall.op = "fmt_C-fmt_y" =>
        LET y == fmtcall.date.year
        IN  /\ \E d \in 0..99 :
                  LET c == (y - d) \div 100
                  IN  /\ c * 100 + d = y
                      /\ out = pad(fmtcall.padding, "Zero", 2, c) \o "-"
                                \o pad(fmtcall.padding, "Zero", 2, d)
            /\ (phase = "reparsing" /\ fmtcall.padding = "Default") =>
                  /\ result \in {"None", "Ok"}
                  /\ template = TemplateOf(fmtcall) =>
                        /\ s = ""
                        /\ items.year = Some(y)

====
